---- MODULE Spec2Model ----
(***************************************************************************)
(* The interaction loop of PyPi/core/core.py (class Core) as a state       *)
(* machine.  The Agent, the environment (mdp) and the callbacks are        *)
(* external collaborators: the environment answers a step with any         *)
(* next state, reward and absorbing flag, the agent draws any action.      *)
(* Each top-level call (learn, evaluate, reset) starts from the idle       *)
(* state; the collection loops advance one loop iteration per action.      *)
(* The agent is the SARSA(lambda) algorithm of                             *)
(* mushroom_rl/algorithms/value/td/sarsa_lambda.py: its table Q and its    *)
(* eligibility trace e, updated once per transition.                       *)
(***************************************************************************)
EXTENDS Integers, Sequences, FiniteSets, TLC

\* ------------------------------------------------------------------ bounds
NStates == 2
NActions == 1
NRewards == 1
Horizon == 3
MaxIterations == 2
MaxHowMany == 2
MaxInitialStates == 2
MaxTotalSteps == 2
\* the action-space size of the table; the policy of the loop's runs draws
\* among the first NActions of them
NTableActions == 2
\* the number of per-transition updates of a run of the algorithm alone
MaxUpdates == 3

States == 0 .. (NStates - 1)
Actions == 0 .. (NActions - 1)
Rewards == 0 .. (NRewards - 1)
\* the states a default reset of the environment may return
StartStates == {0}
\* 'other' stands for any string that is neither 'samples' nor 'episodes'
IterateOver == {"samples", "episodes", "other"}
\* the lists of callbacks a Core may be constructed with
CallbackLists == {<< >>, <<"c1", "c2">>}
\* the sets of absorbing states an environment may have: none, or the
\* highest state
AbsorbingSets == {{}, {NStates - 1}}
InitialStateLists == UNION {[1 .. n -> States] : n \in 0 .. MaxInitialStates}

VARIABLES
    state,          \* Core._state
    total_steps,    \* Core._total_steps
    episode_steps,  \* Core._episode_steps
    callbacks,      \* Core.callbacks
    mdp_absorbing,  \* the absorbing states of the environment
    mdp_steps,      \* environment steps since the environment's last reset
    pc,             \* position in the running call
    args,           \* the running (or last) call and its arguments
    iteration,      \* loop index of learn / evaluate
    dataset,        \* local `dataset` of learn / evaluate
    mv_i,           \* local `i` of _move_samples / _move_episodes
    mv_how_many,    \* parameter `how_many` of _move_*
    mv_dataset,     \* local `dataset` of _move_*
    cb_i,           \* position in `for c in self.callbacks`
    outcome,        \* "none", "running", "returned" or "AssertionError"
    ret,            \* the value returned by the last evaluate
    entry,          \* the Core fields as they were when the call began
    log,            \* the events of the call (of the cycle, in learn)
    mdp_state,      \* the state the environment is in (last reset or step)
    mdp_ended,      \* the environment's last step ended its episode
    prev_tail,      \* learn: the last transition of the previous cycle
    Q,              \* SARSALambda.Q (the table)
    e,              \* SARSALambda.e (the eligibility trace)
    gamma,          \* mdp_info.gamma
    lambda_coeff,   \* SARSALambda._lambda
    alpha,          \* the learning rate of every (state, action)
    upd,            \* the last call of _update: arguments and values
    n_updates       \* the number of calls of _update made directly

loop == <<state, total_steps, episode_steps, callbacks, mdp_absorbing,
          mdp_steps, pc, args, iteration, dataset, mv_i, mv_how_many,
          mv_dataset, cb_i, outcome, ret, entry, log, mdp_state, mdp_ended,
          prev_tail>>
agent == <<Q, e, gamma, lambda_coeff, alpha, upd, n_updates>>
vars == <<loop, agent>>

core == <<state, total_steps, episode_steps, callbacks>>
frame == <<iteration, dataset, mv_i, mv_how_many, mv_dataset, cb_i>>

\* ------------------------------------------------------------- environment
\* mdp.step(action): any next state and reward; absorbing when the next
\* state is one of the environment's absorbing states
MdpStep(action) ==
    {[next_state |-> ns, reward |-> r, absorbing |-> (ns \in mdp_absorbing)] :
        ns \in States, r \in Rewards}

\* mdp.reset(): one of the environment's start states
MdpReset == StartStates

\* mdp.reset(initial_state): the environment is put in that state
MdpResetTo(initial_state) == initial_state

\* agent.draw_action(state)
DrawAction(s) == Actions

\* -------------------------------------------------------------------- log
Event(type, c, data, es, msteps) ==
    [type |-> type, c |-> c, data |-> data, es |-> es, msteps |-> msteps]
StepEvent(sample, es, msteps) == Event("step", "", <<sample>>, es, msteps)
\* self.mdp.reset(...) and the state it returned
ResetEvent(s) == Event("reset", "", <<s>>, 0, 0)

Call(op, n, h, it, hasinit, init) ==
    [op |-> op, n_iterations |-> n, how_many |-> h, iterate_over |-> it,
     has_initial_states |-> hasinit, initial_states |-> init]

Snapshot ==
    [state |-> state, total_steps |-> total_steps,
     episode_steps |-> episode_steps, callbacks |-> callbacks,
     mdp_steps |-> mdp_steps]

\* ------------------------------------------------------------ Core._step
\* mutant: the horizon test is off by one
LastOffByOne(es, absorbing) == ~(es <= Horizon /\ ~absorbing)

\* last = not(self._episode_steps < self.mdp.horizon and not absorbing)
Last(es, absorbing) == ~(es < Horizon /\ ~absorbing)

Sample(s, action, reward, next_state, absorbing, last) ==
    [state |-> s, action |-> action, reward |-> reward,
     next_state |-> next_state, absorbing |-> absorbing, last |-> last]

\* mutant: the sample records the next state as its state
StepSampleStateIsNext(action, out) ==
    Sample(out.next_state, action, out.reward, out.next_state, out.absorbing,
           Last(episode_steps + 1, out.absorbing))

\* the sample appended by _step for the drawn action and the environment's
\* answer
StepSample(action, out) ==
    Sample(state, action, out.reward, out.next_state, out.absorbing,
           Last(episode_steps + 1, out.absorbing))

\* ---------------------------------------------------------------- numbers
\* The floats of the table and of the trace are dyadic rationals n / 2^x
\* (n odd, or x = 0): with rewards that are integers and gamma, lambda and
\* the learning rates dyadic, the float arithmetic of the code is exact.
RECURSIVE Norm(_, _)
Norm(n, x) ==
    IF x > 0 /\ n % 2 = 0 THEN Norm(n \div 2, x - 1) ELSE [n |-> n, x |-> x]
Num(n) == [n |-> n, x |-> 0]
Zero == Num(0)
One == Num(1)
Half == [n |-> 1, x |-> 1]
Max(a, b) == IF a >= b THEN a ELSE b
\* the numerator of a over the denominator 2^m
Scaled(a, m) == a.n * 2 ^ (m - a.x)
Add(a, b) ==
    LET m == Max(a.x, b.x) IN Norm(Scaled(a, m) + Scaled(b, m), m)
Sub(a, b) == Add(a, [n |-> 0 - b.n, x |-> b.x])
Mul(a, b) == Norm(a.n * b.n, a.x + b.x)
Leq(a, b) == LET m == Max(a.x, b.x) IN Scaled(a, m) <= Scaled(b, m)

\* ------------------------------------------------- Table, EligibilityTrace
TableActions == 0 .. (NTableActions - 1)
\* the shape of the table and of the trace: mdp_info.size
Pairs == States \X TableActions
\* Table(mdp_info.size), EligibilityTrace(shape): all entries zero
ZeroTable == [p \in Pairs |-> Zero]
Gammas == {Half, One}
Lambdas == {Zero, Half, One}
\* the learning rates alpha(state, action)
AlphaTables ==
    {[p \in Pairs |-> Half],
     [p \in Pairs |-> IF p[1] = 0 THEN One ELSE Half]}

\* mutant: the accumulating variant, which adds 1 to the entry
TraceUpdateAccumulating(et, s, a) ==
    [et EXCEPT ![<<s, a>>] = Add(et[<<s, a>>], One)]

\* EligibilityTrace.update(state, action), replacing variant
TraceUpdate(et, s, a) == [et EXCEPT ![<<s, a>>] = One]

\* EligibilityTrace.reset()
TraceReset == ZeroTable

\* ---------------------------------------------------- SARSALambda._update
\* mutant: the next pair is read also when the transition is absorbing
QNextIgnoresAbsorbing(Qt, next_state, next_action, absorbing) ==
    Qt[<<next_state, next_action>>]

\* q_next = self.Q[next_state, self.next_action] if not absorbing else 0.
QNext(Qt, next_state, next_action, absorbing) ==
    IF ~absorbing THEN Qt[<<next_state, next_action>>] ELSE Zero

\* delta = reward + self.mdp_info.gamma * q_next - q_current
Delta(reward, q_next, q_current) ==
    Sub(Add(Num(reward), Mul(gamma, q_next)), q_current)

\* mutant: the trace is left out of the update of the table
TableAfterNoTrace(Qt, et, al, delta) ==
    [p \in Pairs |-> Add(Qt[p], Mul(al, delta))]

\* self.Q.table += self.alpha(state, action) * delta * self.e.table
TableAfter(Qt, et, al, delta) ==
    [p \in Pairs |-> Add(Qt[p], Mul(Mul(al, delta), et[p]))]

\* mutant: the trace decays by gamma alone
TraceDecayGammaOnly(et) ==
    [p \in Pairs |-> Mul(et[p], gamma)]

\* self.e.table *= self.mdp_info.gamma * self._lambda
TraceDecay(et) ==
    [p \in Pairs |-> Mul(et[p], Mul(gamma, lambda_coeff))]

\* one call of _update on table Qt and trace et, with next_action the
\* action drawn at next_state: the values it computes and leaves
UpdateResult(Qt, et, s, a, r, ns, ab, na) ==
    LET q_current == Qt[<<s, a>>]
        q_next == QNext(Qt, ns, na, ab)
        delta == Delta(r, q_next, q_current)
        e1 == TraceUpdate(et, s, a)
        al == alpha[<<s, a>>]
        Q1 == TableAfter(Qt, e1, al, delta)
        e2 == TraceDecay(e1)
    IN [state |-> s, action |-> a, reward |-> r, next_state |-> ns,
        absorbing |-> ab, next_action |-> na, al |-> al,
        Q0 |-> Qt, e0 |-> et, q_current |-> q_current, q_next |-> q_next,
        delta |-> delta, e1 |-> e1, Q1 |-> Q1, e2 |-> e2, valid |-> TRUE]

\* no call of _update yet
NoUpdate ==
    [state |-> 0, action |-> 0, reward |-> 0, next_state |-> 0,
     absorbing |-> FALSE, next_action |-> 0, al |-> Zero,
     Q0 |-> ZeroTable, e0 |-> ZeroTable, q_current |-> Zero, q_next |-> Zero,
     delta |-> Zero, e1 |-> ZeroTable, Q1 |-> ZeroTable, e2 |-> ZeroTable,
     valid |-> FALSE]

\* self.next_action = self.draw_action(next_state), for each transition of
\* ds: the sequences of next actions the updates may draw
NextActions(ds) ==
    {nas \in [1 .. Len(ds) -> Actions] :
        \A i \in 1 .. Len(ds) : nas[i] \in DrawAction(ds[i].next_state)}

\* TD.fit(dataset): _update on every transition of the dataset, in order;
\* nas[i] is the next action drawn in the i-th update
RECURSIVE FitFrom(_, _, _, _)
FitFrom(Qt, et, ds, nas) ==
    IF ds = << >> THEN [Q |-> Qt, e |-> et]
    ELSE LET t == Head(ds)
             u == UpdateResult(Qt, et, t.state, t.action, t.reward,
                               t.next_state, t.absorbing, Head(nas))
         IN FitFrom(u.Q1, u.e2, Tail(ds), Tail(nas))

\* --------------------------------------------------------------- __init__
Init ==
    /\ state \in MdpReset
    /\ total_steps = 0
    /\ episode_steps = 0
    /\ callbacks \in CallbackLists
    /\ mdp_absorbing \in AbsorbingSets
    /\ mdp_steps = 0
    /\ pc = "idle"
    /\ args = Call("none", 0, 0, "episodes", FALSE, << >>)
    /\ iteration = 0
    /\ dataset = << >>
    /\ mv_i = 0
    /\ mv_how_many = 0
    /\ mv_dataset = << >>
    /\ cb_i = 0
    /\ outcome = "none"
    /\ ret = << >>
    /\ entry = [state |-> state, total_steps |-> 0, episode_steps |-> 0,
                callbacks |-> callbacks, mdp_steps |-> 0]
    /\ log = << >>
    /\ mdp_state = state
    /\ mdp_ended = FALSE
    /\ prev_tail = << >>
    /\ Q = ZeroTable
    /\ e = ZeroTable
    /\ gamma = One
    /\ lambda_coeff = One
    /\ alpha = [p \in Pairs |-> One]
    /\ upd = NoUpdate
    /\ n_updates = 0

\* ------------------------------------------------------------ Core.learn
\* mutant: the check of iterate_over is missing
LearnAssertMissing(iterate_over) == TRUE

\* assert iterate_over == 'samples' or iterate_over == 'episodes'
LearnAssert(iterate_over) ==
    iterate_over = "samples" \/ iterate_over = "episodes"

\* the branch `if iterate_over == 'samples': ... else: ...`
LearnBranch(iterate_over) ==
    IF iterate_over = "samples" THEN "move_samples" ELSE "move_episodes"

Learn(n_iterations, how_many, iterate_over) ==
    /\ pc = "idle"
    /\ iterate_over = "samples" => total_steps + n_iterations <= MaxTotalSteps
    /\ args' = Call("learn", n_iterations, how_many, iterate_over, FALSE, << >>)
    /\ entry' = Snapshot
    /\ log' = << >>
    /\ ret' = << >>
    /\ iteration' = 0
    /\ dataset' = << >>
    /\ mv_i' = 0
    /\ mv_how_many' = 0
    /\ mv_dataset' = << >>
    /\ cb_i' = 0
    /\ IF LearnAssert(iterate_over)
       THEN pc' = "learn_loop" /\ outcome' = "running"
       ELSE pc' = "idle" /\ outcome' = "AssertionError"
    /\ prev_tail' = << >>
    /\ UNCHANGED <<core, mdp_absorbing, mdp_steps, mdp_state, mdp_ended, agent>>

\* loop head of `for self.iteration in xrange(n_iterations)`: enter
\* _move_samples / _move_episodes for the next cycle, or return.  The
\* `dataset` of the previous cycle is dead here (rebound by the call).
LearnLoop ==
    /\ pc = "learn_loop"
    /\ IF iteration < args.n_iterations
       THEN /\ pc' = LearnBranch(args.iterate_over)
            /\ mv_i' = 0
            /\ mv_how_many' = args.how_many
            /\ mv_dataset' = << >>
            /\ episode_steps' = IF LearnBranch(args.iterate_over) = "move_episodes"
                                THEN 0 ELSE episode_steps
            /\ dataset' = << >>
            /\ prev_tail' = IF dataset = << >> THEN << >>
                            ELSE <<dataset[Len(dataset)]>>
            /\ log' = << >>
            /\ outcome' = outcome
       ELSE /\ pc' = "idle"
            /\ outcome' = "returned"
            /\ UNCHANGED <<mv_i, mv_how_many, mv_dataset, episode_steps,
                           dataset, log, prev_tail>>
    /\ UNCHANGED <<state, total_steps, callbacks, mdp_absorbing, mdp_steps,
                   args, iteration, cb_i, ret, entry, mdp_state, mdp_ended,
                   agent>>

\* self.agent.fit(dataset, n_fit_steps)
Fit ==
    /\ pc = "fit"
    /\ log' = Append(log, Event("fit", "", dataset, 0, 0))
    /\ cb_i' = 1
    /\ pc' = "callbacks"
    /\ \E nas \in NextActions(dataset) :
         LET fitted == FitFrom(Q, e, dataset, nas)
         IN Q' = fitted.Q /\ e' = fitted.e
    /\ UNCHANGED <<core, mdp_absorbing, mdp_steps, args, iteration, dataset,
                   mv_i, mv_how_many, mv_dataset, outcome, ret, entry,
                   mdp_state, mdp_ended, prev_tail, gamma, lambda_coeff,
                   alpha, upd, n_updates>>

\* mutant: the callbacks are walked from the end of the list
CallbackAtReversed(i) == callbacks[Len(callbacks) + 1 - i]

\* the callback reached by `for c in self.callbacks` at position i
CallbackAt(i) == callbacks[i]

\* c(dataset)
Callback ==
    /\ pc = "callbacks"
    /\ cb_i <= Len(callbacks)
    /\ log' = Append(log, Event("callback", CallbackAt(cb_i), dataset, 0, 0))
    /\ cb_i' = cb_i + 1
    /\ UNCHANGED <<core, mdp_absorbing, mdp_steps, pc, args, iteration,
                   dataset, mv_i, mv_how_many, mv_dataset, outcome, ret, entry,
                   mdp_state, mdp_ended, prev_tail, agent>>

\* mutant: the counter is advanced by every cycle, in both branches
TotalStepsAfterCycleBothBranches(iterate_over) == total_steps + 1

\* end of the loop body: self._total_steps += 1 in the samples branch only
TotalStepsAfterCycle(iterate_over) ==
    IF iterate_over = "samples" THEN total_steps + 1 ELSE total_steps

EndCycle ==
    /\ pc = "callbacks"
    /\ cb_i > Len(callbacks)
    /\ total_steps' = TotalStepsAfterCycle(args.iterate_over)
    /\ iteration' = iteration + 1
    /\ pc' = "learn_loop"
    /\ UNCHANGED <<state, episode_steps, callbacks, mdp_absorbing, mdp_steps,
                   args, dataset, mv_i, mv_how_many, mv_dataset, cb_i,
                   outcome, ret, entry, log, mdp_state, mdp_ended, prev_tail,
                   agent>>

\* ------------------------------------------------- Core._move_samples
\* mutant: evaluate goes on to fit like learn
ReturnPcAlwaysFit(op) == "fit"

\* where `return dataset` of _move_* continues in the caller
ReturnPc(op) == IF op = "learn" THEN "fit" ELSE "evaluate_loop"

\* mutant: the environment is not reset when a step reports last
ResetAfterStepNever(last) == FALSE

\* `if self._step(dataset, render):` of _move_samples and the end of
\* `while not self._step(dataset, render)` of _move_episodes: the
\* environment and episode_steps are reset once a step reports last
ResetAfterStep(last) == last

\* mutant: the requested count is taken as a count of episodes
MoveSamplesNextICountsEpisodes(i, last) == IF last THEN i + 1 ELSE i

\* i += 1 after every step
MoveSamplesNextI(i, last) == i + 1

MoveSamples ==
    /\ pc = "move_samples"
    /\ mv_i < mv_how_many
    /\ \E action \in DrawAction(state) :
       \E out \in MdpStep(action) :
       \E s0 \in MdpReset :
         LET sample == StepSample(action, out)
             ev == StepEvent(sample, episode_steps + 1, mdp_steps + 1)
         IN /\ mv_dataset' = Append(mv_dataset, sample)
            /\ IF ResetAfterStep(sample.last)
               THEN /\ state' = s0
                    /\ episode_steps' = 0
                    /\ mdp_steps' = 0
                    /\ mdp_state' = s0
                    /\ mdp_ended' = FALSE
                    /\ log' = log \o <<ev, ResetEvent(s0)>>
               ELSE /\ state' = out.next_state
                    /\ episode_steps' = episode_steps + 1
                    /\ mdp_steps' = mdp_steps + 1
                    /\ mdp_state' = out.next_state
                    /\ mdp_ended' = sample.last
                    /\ log' = Append(log, ev)
            /\ mv_i' = MoveSamplesNextI(mv_i, sample.last)
    /\ UNCHANGED <<total_steps, callbacks, mdp_absorbing, pc, args, iteration,
                   dataset, mv_how_many, cb_i, outcome, ret, entry, prev_tail,
                   agent>>

\* ------------------------------------------------ Core._move_episodes
\* mutant: the requested count is taken as a count of steps
MoveEpisodesNextICountsSteps(i, last) == i + 1

\* i += 1 only once the inner loop has seen a step report last
MoveEpisodesNextI(i, last) == IF last THEN i + 1 ELSE i

MoveEpisodes ==
    /\ pc = "move_episodes"
    /\ mv_i < mv_how_many
    /\ \E action \in DrawAction(state) :
       \E out \in MdpStep(action) :
       \E s0 \in MdpReset :
         LET sample == StepSample(action, out)
             ev == StepEvent(sample, episode_steps + 1, mdp_steps + 1)
         IN /\ mv_dataset' = Append(mv_dataset, sample)
            /\ IF ResetAfterStep(sample.last)
               THEN /\ state' = s0
                    /\ episode_steps' = 0
                    /\ mdp_steps' = 0
                    /\ mdp_state' = s0
                    /\ mdp_ended' = FALSE
                    /\ log' = log \o <<ev, ResetEvent(s0)>>
               ELSE /\ state' = out.next_state
                    /\ episode_steps' = episode_steps + 1
                    /\ mdp_steps' = mdp_steps + 1
                    /\ mdp_state' = out.next_state
                    /\ mdp_ended' = sample.last
                    /\ log' = Append(log, ev)
            /\ mv_i' = MoveEpisodesNextI(mv_i, sample.last)
    /\ UNCHANGED <<total_steps, callbacks, mdp_absorbing, pc, args, iteration,
                   dataset, mv_how_many, cb_i, outcome, ret, entry, prev_tail,
                   agent>>

\* `return dataset` of _move_samples / _move_episodes: learn binds it to its
\* `dataset`, evaluate appends it (dataset += ...)
MoveReturn ==
    /\ pc \in {"move_samples", "move_episodes"}
    /\ mv_i >= mv_how_many
    /\ pc' = ReturnPc(args.op)
    /\ IF args.op = "learn"
       THEN dataset' = mv_dataset /\ iteration' = iteration
       ELSE dataset' = dataset \o mv_dataset /\ iteration' = iteration + 1
    /\ UNCHANGED <<core, mdp_absorbing, mdp_steps, args, mv_i, mv_how_many,
                   mv_dataset, cb_i, outcome, ret, entry, log, mdp_state,
                   mdp_ended, prev_tail, agent>>

\* --------------------------------------------------------- Core.evaluate
\* mutant: the check of iterate_over is missing
EvaluateAssertMissing(iterate_over) == TRUE

\* assert iterate_over == 'episodes' (when initial_states is given)
EvaluateAssert(iterate_over) == iterate_over = "episodes"

\* which of the three loops of evaluate runs
EvaluateBranch(has_initial_states, iterate_over) ==
    IF has_initial_states THEN "initial_states"
    ELSE IF iterate_over = "episodes" THEN "episodes" ELSE "samples"

Evaluate(how_many, iterate_over, has_initial_states, initial_states) ==
    /\ pc = "idle"
    /\ args' = Call("evaluate", 0, how_many, iterate_over,
                    has_initial_states, initial_states)
    /\ entry' = Snapshot
    /\ ret' = << >>
    /\ iteration' = 0
    /\ dataset' = << >>
    /\ mv_i' = 0
    /\ mv_how_many' = 0
    /\ mv_dataset' = << >>
    /\ cb_i' = 0
    /\ IF has_initial_states /\ ~EvaluateAssert(iterate_over)
       THEN /\ pc' = "idle"
            /\ outcome' = "AssertionError"
            /\ log' = << >>
            /\ UNCHANGED <<state, mdp_steps, mdp_state, mdp_ended>>
       ELSE /\ pc' = "evaluate_loop"
            /\ outcome' = "running"
            /\ IF EvaluateBranch(has_initial_states, iterate_over) = "samples"
               THEN /\ state' \in MdpReset
                    /\ mdp_steps' = 0
                    /\ mdp_state' = state'
                    /\ mdp_ended' = FALSE
                    /\ log' = <<ResetEvent(state')>>
               ELSE /\ log' = << >>
                    /\ UNCHANGED <<state, mdp_steps, mdp_state, mdp_ended>>
    /\ prev_tail' = << >>
    /\ UNCHANGED <<total_steps, episode_steps, callbacks, mdp_absorbing, agent>>

\* mutant: every pass starts from the first row
InitialStateFirstRow(i) == args.initial_states[1]

\* the row initial_states[i, :] of the i-th pass (i from 0)
InitialState(i) == args.initial_states[i + 1]

\* for i in xrange(initial_states.shape[0]):
\*     self._state = self.mdp.reset(initial_states[i, :]); _move_episodes(1)
EvaluateInitialStates ==
    /\ pc = "evaluate_loop"
    /\ EvaluateBranch(args.has_initial_states, args.iterate_over) = "initial_states"
    /\ iteration < Len(args.initial_states)
    /\ state' = MdpResetTo(InitialState(iteration))
    /\ mdp_steps' = 0
    /\ mdp_state' = state'
    /\ mdp_ended' = FALSE
    /\ log' = Append(log, ResetEvent(state'))
    /\ pc' = "move_episodes"
    /\ mv_i' = 0
    /\ mv_how_many' = 1
    /\ mv_dataset' = << >>
    /\ episode_steps' = 0
    /\ UNCHANGED <<total_steps, callbacks, mdp_absorbing, args, iteration,
                   dataset, cb_i, outcome, ret, entry, prev_tail, agent>>

\* for _ in xrange(how_many): self._state = self.mdp.reset(); _move_episodes(1)
EvaluateEpisodes ==
    /\ pc = "evaluate_loop"
    /\ EvaluateBranch(args.has_initial_states, args.iterate_over) = "episodes"
    /\ iteration < args.how_many
    /\ state' \in MdpReset
    /\ mdp_steps' = 0
    /\ mdp_state' = state'
    /\ mdp_ended' = FALSE
    /\ log' = Append(log, ResetEvent(state'))
    /\ pc' = "move_episodes"
    /\ mv_i' = 0
    /\ mv_how_many' = 1
    /\ mv_dataset' = << >>
    /\ episode_steps' = 0
    /\ UNCHANGED <<total_steps, callbacks, mdp_absorbing, args, iteration,
                   dataset, cb_i, outcome, ret, entry, prev_tail, agent>>

\* for _ in xrange(how_many): dataset += self._move_samples(1)
EvaluateSamples ==
    /\ pc = "evaluate_loop"
    /\ EvaluateBranch(args.has_initial_states, args.iterate_over) = "samples"
    /\ iteration < args.how_many
    /\ pc' = "move_samples"
    /\ mv_i' = 0
    /\ mv_how_many' = 1
    /\ mv_dataset' = << >>
    /\ UNCHANGED <<core, mdp_absorbing, mdp_steps, args, iteration, dataset,
                   cb_i, outcome, ret, entry, log, mdp_state, mdp_ended,
                   prev_tail, agent>>

\* the number of passes of the loop of evaluate that runs
EvaluatePasses ==
    IF args.has_initial_states THEN Len(args.initial_states) ELSE args.how_many

\* return dataset
EvaluateReturn ==
    /\ pc = "evaluate_loop"
    /\ iteration >= EvaluatePasses
    /\ ret' = dataset
    /\ outcome' = "returned"
    /\ pc' = "idle"
    /\ UNCHANGED <<core, mdp_absorbing, mdp_steps, args, frame, entry, log,
                   mdp_state, mdp_ended, prev_tail, agent>>

\* ------------------------------------------------------------ Core.reset
\* mutant: episode_steps is left as it is
CountersAfterResetKeepsEpisode ==
    [total_steps |-> 0, episode_steps |-> episode_steps]

\* self._total_steps = 0; self._episode_steps = 0
CountersAfterReset == [total_steps |-> 0, episode_steps |-> 0]

Reset ==
    /\ pc = "idle"
    /\ state' \in MdpReset
    /\ total_steps' = CountersAfterReset.total_steps
    /\ episode_steps' = CountersAfterReset.episode_steps
    /\ mdp_steps' = 0
    /\ mdp_state' = state'
    /\ mdp_ended' = FALSE
    /\ prev_tail' = << >>
    /\ args' = Call("reset", 0, 0, "episodes", FALSE, << >>)
    /\ entry' = Snapshot
    /\ log' = <<ResetEvent(state')>>
    /\ ret' = << >>
    /\ outcome' = "returned"
    /\ iteration' = 0
    /\ dataset' = << >>
    /\ mv_i' = 0
    /\ mv_how_many' = 0
    /\ mv_dataset' = << >>
    /\ cb_i' = 0
    /\ UNCHANGED <<callbacks, mdp_absorbing, pc, agent>>

\* ------------------------------------------------------------------ Next
Next ==
    \/ \E n \in 0 .. MaxIterations, h \in 1 .. MaxHowMany, it \in IterateOver :
         Learn(n, h, it)
    \/ LearnLoop
    \/ Fit
    \/ Callback
    \/ EndCycle
    \/ MoveSamples
    \/ MoveEpisodes
    \/ MoveReturn
    \/ \E h \in 1 .. MaxHowMany, it \in IterateOver : Evaluate(h, it, FALSE, << >>)
    \/ \E it \in IterateOver, init \in InitialStateLists : Evaluate(1, it, TRUE, init)
    \/ EvaluateInitialStates
    \/ EvaluateEpisodes
    \/ EvaluateSamples
    \/ EvaluateReturn
    \/ Reset

Spec == Init /\ [][Next]_vars

\* ------------------------------------------------- the agent on its own
\* The second specification drives SARSALambda directly: any sequence of
\* _update and episode_start calls, on any transition, for each choice of
\* gamma, lambda and learning rates.
TDRewards == 0 .. NRewards

\* the loop between two calls, with current state s and the counters at
\* ts and es, around an environment that never reports absorbing
IdleLoop(s, ts, es) ==
    /\ state = s
    /\ total_steps = ts
    /\ episode_steps = es
    /\ callbacks = << >>
    /\ mdp_absorbing = {}
    /\ mdp_steps = 0
    /\ pc = "idle"
    /\ args = Call("none", 0, 0, "episodes", FALSE, << >>)
    /\ iteration = 0
    /\ dataset = << >>
    /\ mv_i = 0
    /\ mv_how_many = 0
    /\ mv_dataset = << >>
    /\ cb_i = 0
    /\ outcome = "none"
    /\ ret = << >>
    /\ entry = [state |-> s, total_steps |-> ts, episode_steps |-> es,
                callbacks |-> << >>, mdp_steps |-> 0]
    /\ log = << >>
    /\ mdp_state = s
    /\ mdp_ended = FALSE
    /\ prev_tail = << >>

InitTD ==
    /\ \E s \in MdpReset : IdleLoop(s, 0, 0)
    /\ Q = ZeroTable
    /\ e = ZeroTable
    /\ gamma \in Gammas
    /\ lambda_coeff \in Lambdas
    /\ alpha \in AlphaTables
    /\ upd = NoUpdate
    /\ n_updates = 0

\* SARSALambda._update(state, action, reward, next_state, absorbing), where
\* draw_action(next_state) returns next_action
Update(s, a, r, ns, ab, na) ==
    /\ pc = "idle"
    /\ n_updates < MaxUpdates
    /\ upd' = UpdateResult(Q, e, s, a, r, ns, ab, na)
    /\ Q' = upd'.Q1
    /\ e' = upd'.e2
    /\ n_updates' = n_updates + 1
    /\ UNCHANGED <<loop, gamma, lambda_coeff, alpha>>

\* SARSALambda.episode_start
episode_start ==
    /\ pc = "idle"
    /\ e' = TraceReset
    /\ upd' = NoUpdate
    /\ UNCHANGED <<loop, Q, gamma, lambda_coeff, alpha, n_updates>>

NextTD ==
    \/ \E s \in States, a \in TableActions, r \in TDRewards, ns \in States,
          ab \in BOOLEAN, na \in TableActions :
         Update(s, a, r, ns, ab, na)
    \/ episode_start

SpecTD == InitTD /\ [][NextTD]_vars

\* ------------------------------------- the trained agent under the loop
\* The third specification lets reset() and learn() with zero iterations
\* run on an agent whose table and trace hold learned values.
\* Its loop has run before: it is in the middle of an episode, away from
\* the reset state, with steps counted.
InitTrained ==
    /\ \E s \in States \ StartStates :
         IdleLoop(s, MaxTotalSteps, Horizon - 1)
    /\ Q = ZeroTable
    /\ e = ZeroTable
    /\ gamma = Half
    /\ lambda_coeff = Half
    /\ alpha = [p \in Pairs |-> IF p[1] = 0 THEN One ELSE Half]
    /\ upd = NoUpdate
    /\ n_updates = 0

NextTrained ==
    \/ NextTD
    \/ Reset
    \/ \E h \in 1 .. MaxHowMany, it \in IterateOver : Learn(0, h, it)
    \/ LearnLoop

SpecTrained == InitTrained /\ [][NextTrained]_vars

\* ------------------------------------------------------------ properties
StepEvents(l) == SelectSeq(l, LAMBDA ev : ev.type = "step")
CallEvents(l) == SelectSeq(l, LAMBDA ev : ev.type # "reset")
\* the transitions of the steps recorded in l, in order
Transitions(l) == [i \in 1 .. Len(StepEvents(l)) |-> StepEvents(l)[i].data[1]]
LastIndices(ds) == {i \in 1 .. Len(ds) : ds[i].last}
CountLast(ds) == Cardinality(LastIndices(ds))

LearnRuns == args.op = "learn" /\ outcome \in {"running", "returned"}
\* a cycle of learn has just ended
CycleEnded ==
    \/ pc = "learn_loop" /\ iteration > 0
    \/ pc = "idle" /\ outcome = "returned" /\ args.n_iterations > 0

\* C1: in every cycle of learn the events are, in this order, the steps
\* that collect the dataset, one call of fit with exactly the transitions
\* of those steps, then one call of each registered callback, in
\* registration order, with that same dataset; when the cycle ends (and so
\* before any step of the next cycle) fit and every callback have been
\* called.
C1_CycleOrder ==
    LearnRuns =>
        LET ev == CallEvents(log)
            k == Len(StepEvents(log))
            ds == Transitions(log)
        IN /\ \A i \in 1 .. Len(ev) : (i <= k) <=> (ev[i].type = "step")
           /\ Len(ev) > k => ev[k + 1].type = "fit" /\ ev[k + 1].data = ds
           /\ \A i \in (k + 2) .. Len(ev) :
                /\ ev[i].type = "callback"
                /\ i - k - 1 <= Len(callbacks)
                /\ ev[i].c = callbacks[i - k - 1]
                /\ ev[i].data = ds
           /\ CycleEnded => Len(ev) = k + 1 + Len(callbacks)
           /\ pc \in {"move_samples", "move_episodes"} => Len(ev) = k

C1_Witness ==
    /\ LearnRuns
    /\ pc = "idle"
    /\ args.n_iterations = 2
    /\ iteration = 2
    /\ Len(callbacks) = 2
    /\ Len(StepEvents(log)) >= 2
    /\ Len(CallEvents(log)) = Len(StepEvents(log)) + 3

\* a sample-mode collection is at its `return dataset`
SamplesCollected == pc = "move_samples" /\ mv_i >= mv_how_many

\* C2: a sample-mode collection of N requests has performed exactly N single
\* steps and returns exactly N transitions, whatever episode boundaries were
\* met and whatever episode_steps was at the start.
C2_SampleCount ==
    /\ SamplesCollected => Len(mv_dataset) = mv_how_many
    /\ SamplesCollected /\ args.op = "learn" =>
          /\ Len(StepEvents(log)) = args.how_many
          /\ mv_dataset = Transitions(log)
    /\ SamplesCollected /\ args.op = "evaluate" =>
          /\ Len(StepEvents(log)) = iteration + 1
          /\ dataset \o mv_dataset = Transitions(log)
    /\ (args.op = "evaluate" /\ outcome = "returned"
        /\ EvaluateBranch(args.has_initial_states, args.iterate_over) = "samples") =>
          /\ Len(ret) = args.how_many
          /\ Len(StepEvents(log)) = args.how_many

C2_Witness ==
    /\ SamplesCollected
    /\ args.op = "learn"
    /\ mv_how_many = 2
    /\ entry.episode_steps > 0
    /\ mv_dataset[1].last
    /\ ~mv_dataset[2].last

\* an episode-mode collection is at its `return dataset`
EpisodesCollected == pc = "move_episodes" /\ mv_i >= mv_how_many

AboutToStep == pc \in {"move_samples", "move_episodes"} /\ mv_i < mv_how_many

\* C4: in an environment that never reports absorbing, a transition has
\* last = true exactly when it is the Horizon-th environment step since the
\* most recent reset of the environment.
C4_HorizonEpisodes ==
    mdp_absorbing = {} =>
        \A i \in 1 .. Len(log) :
            log[i].type = "step" =>
                (log[i].data[1].last <=> log[i].msteps = Horizon)

\* C5: episode_steps is 0 exactly at the environment-reset boundaries: when
\* a single step is about to be taken, the environment has just been reset
\* (no step since its last reset) if and only if episode_steps is 0.
C5_EpisodeStepsAtReset ==
    AboutToStep => ((mdp_steps = 0) <=> (episode_steps = 0))

\* C6: every transition appended by a single step has
\* last = (absorbing OR episode_steps >= horizon), with episode_steps as it
\* is after the increment of that step.
C6_LastFlag ==
    \A i \in 1 .. Len(log) :
        log[i].type = "step" =>
            LET t == log[i].data[1]
            IN t.last = (t.absorbing \/ log[i].es >= Horizon)

C6_Witness ==
    /\ \E i \in 1 .. Len(log) :
          /\ log[i].type = "step"
          /\ log[i].data[1].absorbing
          /\ log[i].data[1].last
          /\ log[i].es < Horizon
    /\ \E i \in 1 .. Len(log) :
          /\ log[i].type = "step"
          /\ ~log[i].data[1].absorbing
          /\ log[i].data[1].last
          /\ log[i].es = Horizon
    /\ \E i \in 1 .. Len(log) :
          /\ log[i].type = "step"
          /\ ~log[i].data[1].last

\* the index of the j-th transition of ds with last = true
LastIndex(ds, j) ==
    CHOOSE i \in LastIndices(ds) :
        Cardinality({m \in LastIndices(ds) : m <= i}) = j
\* the index of the first transition of the j-th episode of ds
EpisodeStart(ds, j) == IF j = 1 THEN 1 ELSE LastIndex(ds, j - 1) + 1

EvaluateReturned == args.op = "evaluate" /\ outcome = "returned"

\* C7: evaluate with k initial states returns k whole episodes, in order,
\* and the first transition of the i-th episode starts in the state the
\* environment returned when it was reset to the i-th initial state,
\* whatever the current state and episode_steps were before the call.
C7_InitialStates ==
    EvaluateReturned /\ args.has_initial_states =>
        LET k == Len(args.initial_states)
        IN /\ CountLast(ret) = k
           /\ Len(ret) >= k
           /\ k > 0 => ret[Len(ret)].last
           /\ ret = Transitions(log)
           /\ \A j \in 1 .. k :
                ret[EpisodeStart(ret, j)].state =
                    MdpResetTo(args.initial_states[j])

C7_Witness ==
    /\ EvaluateReturned
    /\ args.has_initial_states
    /\ args.initial_states = <<1, 0>>
    /\ entry.state = 0
    /\ entry.episode_steps > 0
    /\ Len(ret) > 2
    /\ ret[1].state = 1

\* C8: evaluate never calls fit or a callback and leaves total_steps and
\* the list of callbacks as they were at the call, in every mode and for
\* every argument.
C8_EvaluateNoFit ==
    args.op = "evaluate" =>
        /\ \A i \in 1 .. Len(log) : log[i].type \notin {"fit", "callback"}
        /\ pc \notin {"fit", "callbacks", "learn_loop"}
        /\ total_steps = entry.total_steps
        /\ callbacks = entry.callbacks

C8_Witness ==
    /\ EvaluateReturned
    /\ Len(ret) >= 2
    /\ Len(callbacks) > 0
    /\ entry.total_steps > 0

\* nothing has been touched since the call began
NoInteraction ==
    /\ log = << >>
    /\ state = entry.state
    /\ total_steps = entry.total_steps
    /\ episode_steps = entry.episode_steps
    /\ mdp_steps = entry.mdp_steps
    /\ pc = "idle"

\* C9: learn with an iterate_over that is neither 'samples' nor 'episodes'
\* fails before any interaction: no action drawn, no environment step or
\* reset, no fit, no callback, current state and both counters unchanged.
C9_LearnBadIterateOver ==
    args.op = "learn" /\ args.iterate_over \notin {"samples", "episodes"} =>
        outcome = "AssertionError" /\ NoInteraction

C9_Witness ==
    /\ args.op = "learn"
    /\ args.iterate_over = "other"
    /\ outcome = "AssertionError"
    /\ entry.episode_steps > 0
    /\ entry.total_steps > 0

\* C10: evaluate with initial_states and iterate_over = 'samples' fails
\* before any interaction: no environment reset or step, no action drawn,
\* current state and both counters unchanged.
C10_EvaluateInitialStatesSamples ==
    (args.op = "evaluate" /\ args.has_initial_states
     /\ args.iterate_over = "samples") =>
        outcome = "AssertionError" /\ NoInteraction

C10_Witness ==
    /\ args.op = "evaluate"
    /\ args.has_initial_states
    /\ args.iterate_over = "samples"
    /\ Len(args.initial_states) = 2
    /\ outcome = "AssertionError"
    /\ entry.episode_steps > 0

\* C11: evaluate without initial_states and with an iterate_over that is
\* neither 'samples' nor 'episodes' fails before any interaction: no
\* environment reset, no step, nothing returned.
C11_EvaluateBadIterateOver ==
    (args.op = "evaluate" /\ ~args.has_initial_states
     /\ args.iterate_over \notin {"samples", "episodes"}) =>
        outcome = "AssertionError" /\ NoInteraction

\* C13: total_steps is changed only by learn in samples mode and by reset:
\* during learn in samples mode it is its value at the call plus the number
\* of finished cycles (n more at the return), it is advanced only once the
\* callbacks of the cycle are done, and learn in episodes mode and evaluate
\* leave it as it was at the call; so it never decreases between two resets.
C13_TotalSteps ==
    /\ (LearnRuns /\ args.iterate_over = "samples") =>
          /\ total_steps = entry.total_steps + iteration
          /\ (pc = "idle" /\ outcome = "returned") =>
                total_steps = entry.total_steps + args.n_iterations
    /\ (LearnRuns /\ args.iterate_over = "episodes") =>
          total_steps = entry.total_steps
    /\ args.op = "evaluate" => total_steps = entry.total_steps
    /\ args.op = "reset" => total_steps = 0
    /\ args.op \in {"learn", "evaluate"} => total_steps >= entry.total_steps

C13_Witness ==
    /\ LearnRuns
    /\ args.iterate_over = "samples"
    /\ args.n_iterations = 2
    /\ pc = "idle"
    /\ outcome = "returned"
    /\ total_steps = 2
    /\ Len(callbacks) = 2

TracesBefore(i) ==
    {FitFrom(Q, e, SubSeq(dataset, 1, i - 1), SubSeq(nas, 1, i - 1)).e :
        nas \in NextActions(dataset)}

\* C14: during learn, when the per-transition update of the first transition
\* of an episode (the step that brought episode_steps to 1) is processed, the
\* trace is all-zero: it was reset after the updates of the episode before.
C14_TraceZeroAtEpisodeStart ==
    (LearnRuns /\ pc = "fit") =>
        \A i \in 1 .. Len(dataset) :
            StepEvents(log)[i].es = 1 => TracesBefore(i) = {ZeroTable}

\* every entry of the trace t lies in [0, 1]
InUnit(t) == \A p \in Pairs : Leq(Zero, t[p]) /\ Leq(t[p], One)
\* the pair updated by the latest call of _update
UpdPair == <<upd.state, upd.action>>
\* the next pair of the latest call of _update
UpdNextPair == <<upd.next_state, upd.next_action>>
GammaLambda == Mul(gamma, lambda_coeff)

\* C15: with the replacing trace and gamma, lambda in [0, 1], every entry of
\* the trace lies in [0, 1] in every reachable state: before an update,
\* right after Trace.update (the trace the table update uses), after the
\* decay, and after episode_start, for any sequence of these calls.
C15_TraceBounded ==
    /\ InUnit(e)
    /\ upd.valid =>
          /\ InUnit(upd.e0)
          /\ InUnit(upd.e1)
          /\ InUnit(upd.e2)
          /\ e = upd.e2

\* after several updates the trace holds, right after Trace.update, the
\* entry 1 of the pair just visited and an entry strictly between 0 and 1
\* of a pair visited before
C15_Witness ==
    /\ upd.valid
    /\ n_updates = MaxUpdates
    /\ upd.e0[UpdPair] # Zero
    /\ upd.e1[UpdPair] = One
    /\ \E p \in Pairs \ {UpdPair} :
          upd.e1[p] \notin {Zero, One} /\ e[p] \notin {Zero, One}

\* C16: in an update, q_current is the entry of the pair in the table as it
\* is before the update writes, q_next is 0 when absorbing is true and
\* otherwise the entry of (next_state, next_action) for the action drawn at
\* next_state, whichever action that is, and
\* delta = reward + gamma * q_next - q_current.  _update is given
\* absorbing and no last flag, so nothing else decides q_next.
C16_TDError ==
    upd.valid =>
        /\ upd.q_current = upd.Q0[UpdPair]
        /\ upd.absorbing => upd.q_next = Zero
        /\ ~upd.absorbing => upd.q_next = upd.Q0[UpdNextPair]
        /\ upd.delta =
              Sub(Add(Num(upd.reward), Mul(gamma, upd.q_next)), upd.q_current)

\* an absorbing transition whose next pair has a non-zero entry in the
\* table, and whose own pair has one too
C16_Witness ==
    /\ upd.valid
    /\ upd.absorbing
    /\ upd.Q0[UpdNextPair] # Zero
    /\ upd.Q0[UpdPair] # Zero
    /\ upd.q_next = Zero
    /\ upd.delta # Zero
    /\ UpdNextPair # UpdPair

\* the trace with 1 at pair p and 0 elsewhere
OneHot(p) == [q \in Pairs |-> IF q = p THEN One ELSE Zero]

\* C17: one update does, in this order: Trace.update(state, action); then
\* every entry of the table grows by alpha(state, action) * delta * trace
\* entry, with the one step size of the current pair and the trace as it is
\* after Trace.update; then every entry of the trace is multiplied by
\* gamma * lambda.  So afterwards the trace of the current pair is
\* gamma * lambda, every other entry is its value before the update times
\* gamma * lambda, and table entries whose trace was 0 are unchanged.
C17_UpdateOrder ==
    upd.valid =>
        /\ upd.al = alpha[UpdPair]
        /\ upd.e1 = [upd.e0 EXCEPT ![UpdPair] = One]
        /\ \A p \in Pairs :
              /\ upd.Q1[p] =
                    Add(upd.Q0[p], Mul(Mul(alpha[UpdPair], upd.delta), upd.e1[p]))
              /\ upd.e2[p] = Mul(upd.e1[p], GammaLambda)
              /\ p # UpdPair => upd.e2[p] = Mul(upd.e0[p], GammaLambda)
              /\ upd.e1[p] = Zero => upd.Q1[p] = upd.Q0[p]
        /\ upd.e2[UpdPair] = GammaLambda
        /\ Q = upd.Q1
        /\ e = upd.e2

\* an update with a non-zero delta that changes the table at a pair visited
\* before, whose own step size differs from the one of the current pair,
\* and leaves a never visited pair alone
C17_Witness ==
    /\ upd.valid
    /\ upd.delta # Zero
    /\ \E p \in Pairs \ {UpdPair} :
          /\ upd.e0[p] \notin {Zero, One}
          /\ alpha[p] # alpha[UpdPair]
          /\ upd.Q1[p] # upd.Q0[p]
    /\ \E p \in Pairs : upd.e1[p] = Zero /\ upd.Q1[p] = upd.Q0[p]
    /\ upd.Q1[UpdPair] # upd.Q0[UpdPair]

\* C18: with lambda = 0 every update of a transition that is not absorbing
\* changes the table only at (s, a), by
\* alpha(s, a) * (r + gamma * Table[s', a''] - Table[s, a]) for the drawn
\* next action a'', the trace right after Trace.update is the one-hot vector
\* of (s, a), and the trace is all-zero after the update, for any sequence
\* of updates and episode starts.
C18_LambdaZeroIsSarsa ==
    lambda_coeff = Zero =>
        /\ e = ZeroTable
        /\ (upd.valid /\ ~upd.absorbing) =>
              /\ upd.e1 = OneHot(UpdPair)
              /\ upd.e2 = ZeroTable
              /\ upd.Q1 =
                    [upd.Q0 EXCEPT ![UpdPair] =
                        Add(upd.Q0[UpdPair],
                            Mul(alpha[UpdPair],
                                Sub(Add(Num(upd.reward),
                                        Mul(gamma, upd.Q0[UpdNextPair])),
                                    upd.Q0[UpdPair])))]
              /\ Q = upd.Q1

\* with lambda = 0, a later update of a transition that is not absorbing,
\* on a table with non-zero entries at the pair, at the next pair and at a
\* third pair, changes the entry of the pair
C18_Witness ==
    /\ lambda_coeff = Zero
    /\ upd.valid
    /\ ~upd.absorbing
    /\ n_updates = MaxUpdates
    /\ UpdNextPair # UpdPair
    /\ upd.Q0[UpdPair] # Zero
    /\ upd.Q0[UpdNextPair] # Zero
    /\ upd.Q1[UpdPair] # upd.Q0[UpdPair]
    /\ \E p \in Pairs \ {UpdPair} : upd.Q0[p] # Zero /\ upd.Q1[p] = upd.Q0[p]

\* C19: the loop never steps the environment after a step that reported
\* last = true (so also after absorbing = true) without resetting it first,
\* and the state a step draws its action for (the state its sample
\* records) is the state returned by the latest reset of the environment
\* or the next_state of the latest step.
C19_NoStepAfterLast ==
    /\ AboutToStep => ~mdp_ended /\ state = mdp_state
    /\ \A i \in 2 .. Len(log) :
          log[i].type = "step" =>
              /\ log[i - 1].type = "step" =>
                    /\ ~log[i - 1].data[1].last
                    /\ log[i].data[1].state = log[i - 1].data[1].next_state
              /\ log[i - 1].type = "reset" =>
                    log[i].data[1].state = log[i - 1].data[1]

\* a step is about to be taken after a step that reported absorbing, a
\* reset of the environment and one more step
C19_Witness ==
    /\ AboutToStep
    /\ Len(log) >= 3
    /\ log[Len(log)].type = "step"
    /\ ~log[Len(log)].data[1].last
    /\ log[Len(log) - 1].type = "reset"
    /\ log[Len(log) - 2].type = "step"
    /\ log[Len(log) - 2].data[1].absorbing
    /\ state = log[Len(log)].data[1].next_state

\* consecutive transitions of ds continue one another unless the first one
\* ended its episode
Continuous(ds) ==
    \A i \in 1 .. Len(ds) - 1 :
        ~ds[i].last => ds[i + 1].state = ds[i].next_state

\* in the log, a step that follows a step with last = true comes right after
\* a reset of the environment and starts in the state that reset returned
ResetAfterLast(l) ==
    \A i \in 2 .. Len(l) :
        (/\ l[i].type = "step"
         /\ \E j \in 1 .. i - 1 :
               /\ l[j].type = "step"
               /\ l[j].data[1].last
               /\ \A m \in j + 1 .. i - 1 : l[m].type # "step") =>
            l[i - 1].type = "reset" /\ l[i].data[1].state = l[i - 1].data[1]

\* C20: the dataset passed to fit and the dataset returned by evaluate hold
\* the transitions in the order the steps were taken; two consecutive
\* transitions t, u with t.last = false have u.state = t.next_state, also
\* from the last transition of one sample-mode learn cycle to the first of
\* the next; and the transition after one with last = true starts in a
\* state returned by a reset of the environment.
C20_DatasetContinuity ==
    /\ (LearnRuns /\ pc = "fit") =>
          /\ dataset = Transitions(log)
          /\ Continuous(dataset)
          /\ ResetAfterLast(log)
          /\ (args.iterate_over = "samples" /\ prev_tail # << >>) =>
                IF prev_tail[1].last
                THEN dataset[1].state \in MdpReset
                ELSE dataset[1].state = prev_tail[1].next_state
    /\ EvaluateReturned =>
          /\ ret = Transitions(log)
          /\ Continuous(ret)
          /\ ResetAfterLast(log)

\* the second cycle of a sample-mode learn is about to fit a dataset of two
\* transitions that continue one another, and the first continues the last
\* transition of the first cycle, which had not ended its episode, away
\* from the reset state
C20_Witness ==
    /\ LearnRuns
    /\ pc = "fit"
    /\ args.iterate_over = "samples"
    /\ Len(dataset) = 2
    /\ prev_tail # << >>
    /\ ~prev_tail[1].last
    /\ prev_tail[1].next_state \notin MdpReset
    /\ dataset[1].state = prev_tail[1].next_state
    /\ ~dataset[1].last
    /\ dataset[2].state = dataset[1].next_state
====
